---- MODULE Spec2Model ----
(***************************************************************************)
(* State-machine model of the blind-test generator:                        *)
(*   src/src/itunes_api.py        catalog client   (SpecCatalog)           *)
(*   src/src/audio_processor.py   audio assembler  (SpecPipeline)          *)
(*   src/src/video_generator.py   video renderer   (SpecPipeline,SpecVideo)*)
(*   src/src/youtube_api.py       upload client    (Spec)                  *)
(*   src/src/blind_test_generator.py  orchestrator (Spec)                  *)
(* Durations are whole seconds.                                            *)
(***************************************************************************)
EXTENDS Integers, Sequences, FiniteSets, TLC

VARIABLES
    \* ---- iTunesAPI.get_random_tracks
    genres_len, count, cat_pc, samples_left, all_tracks, search_log, track_list,
    cat_result,
    \* ---- run parameters shared by the audio and the video stage
    tracks_info, snippet_duration, pause_duration, intro_duration,
    outro_duration, answer_duration,
    \* ---- AudioProcessor.process_audio_snippet, called on its own
    snip_pc, src_length, req_duration, snip,
    \* ---- AudioProcessor.create_blind_test_audio
    aud_pc, aud_i, audio_segments, processed_tracks, ok_log,
    complete_audio, returned_tracks,
    \* ---- VideoGenerator.generate_blind_test_video
    vid_pc, vid_tracks, audio_duration, vid_i, video_clips, current_time,
    final_video, final_audio, vid_result,
    \* ---- YouTubeAPI: persisted credentials, resumable_upload
    credentials, flow_ran, up_pc, response, error, retry, up_log, up_outcome,
    \* ---- main
    num_tracks, upload, main_pc, main_result, prompted,
    audio_temp_dir, video_temp_dir, stage_log, printed

catVars == <<genres_len, count, cat_pc, samples_left, all_tracks, search_log,
             track_list, cat_result>>

parVars == <<tracks_info, snippet_duration, pause_duration, intro_duration,
             outro_duration, answer_duration>>

audVars == <<aud_pc, aud_i, audio_segments, processed_tracks, ok_log,
             complete_audio, returned_tracks>>

snipVars == <<snip_pc, src_length, req_duration, snip>>

vidVars == <<vid_pc, vid_tracks, audio_duration, vid_i, video_clips, current_time,
             final_video, final_audio, vid_result>>

upVars == <<credentials, flow_ran, up_pc, response, error, retry, up_log, up_outcome>>

mainVars == <<num_tracks, upload, main_pc, main_result, prompted,
              audio_temp_dir, video_temp_dir, stage_log, printed>>

orchVars == <<upVars, mainVars>>

vars == <<catVars, parVars, snipVars, audVars, vidVars, upVars, mainVars>>

Min(a, b) == IF a <= b THEN a ELSE b

Max(a, b) == IF a >= b THEN a ELSE b

RECURSIVE SumSeq(_)
SumSeq(s) == IF s = <<>> THEN 0 ELSE Head(s) + SumSeq(Tail(s))

Last(s) == s[Len(s)]

(***************************************************************************)
(* Bounds of the model.                                                    *)
(***************************************************************************)
MaxId == 2

MaxCount == 3

MaxGenres == 2

(***************************************************************************)
(* Track descriptors (itunes_api.Track).  Only the identifier and one      *)
(* descriptive field are kept; identifier 0 is what search_music stores    *)
(* when a result carries no trackId.  Identifier 1 has two different       *)
(* descriptors, so that "which occurrence is kept" is observable.          *)
(***************************************************************************)
Tracks ==
    [track_id : 0..MaxId, track_name : {"a"}] \cup {[track_id |-> 1, track_name |-> "b"]}

\* What one search_music call can contribute: nothing (no match, or the
\* request failed and was caught) or a list of descriptors.  Results are
\* concatenated into all_tracks, so longer results are covered by several calls.
SearchResults == {<<>>} \cup {<<t>> : t \in Tracks}

DefaultGenreCount == 15

GenreSampleCap == 5

FallbackSamples == 3

\* the limit passed to search_music for a genre and for a popular term
GenreLimit == 20

PopularLimit == 15

\* one search_music call as seen by its caller: the kind of term, the limit
\* passed, and how many descriptors came back
Search(term, limit, tracks) == [term |-> term, limit |-> limit, found |-> Len(tracks)]

\* len(random.sample(genres, min(len(genres), 5))), genres defaulted when empty
GenreSamples(n) == Min(IF n = 0 THEN DefaultGenreCount ELSE n, GenreSampleCap)

\* the guard of the dedup loop: a truthy identifier not yet in unique_tracks
KeepTrackFirstOnly(t, acc) == t.track_id # 0

KeepTrack(t, acc) ==
    /\ t.track_id # 0
    /\ \A k \in 1..Len(acc) : acc[k].track_id # t.track_id

\* unique_tracks (a dict, insertion-ordered) built from all_tracks
RECURSIVE Dedup(_, _)
Dedup(ts, acc) ==
    IF ts = <<>> THEN acc
    ELSE Dedup(Tail(ts), IF KeepTrack(Head(ts), acc) THEN Append(acc, Head(ts)) ELSE acc)

SampleSizeWholePool(n, c) == n

SampleSize(n, c) == Min(n, c)

\* random.sample(population, k): k distinct positions, in any order
Samples(population, k) ==
    {[j \in 1..k |-> population[f[j]]] :
        f \in {g \in [1..k -> 1..Len(population)] :
                 \A a, b \in 1..k : a # b => g[a] # g[b]}}

\* whether the popular-term searches run
NeedFallback(ts, c) == Len(ts) < c

CatalogIdle ==
    /\ genres_len = 0
    /\ count = 0
    /\ cat_pc = "idle"
    /\ samples_left = 0
    /\ all_tracks = <<>>
    /\ search_log = <<>>
    /\ track_list = <<>>
    /\ cat_result = "None"

CatalogStart ==
    /\ genres_len \in 0..MaxGenres
    /\ count \in 0..MaxCount
    /\ cat_pc = "genres"
    /\ samples_left = GenreSamples(genres_len)
    /\ all_tracks = <<>>
    /\ search_log = <<>>
    /\ track_list = <<>>
    /\ cat_result = "None"

\* one iteration of the genre loop; after the last one, the fallback test
SearchGenre ==
    /\ cat_pc = "genres"
    /\ samples_left > 0
    /\ \E tracks \in SearchResults :
         /\ all_tracks' = all_tracks \o tracks
         /\ search_log' = Append(search_log, Search("genre", GenreLimit, tracks))
         /\ samples_left' = IF samples_left > 1 THEN samples_left - 1
                            ELSE IF NeedFallback(all_tracks', count) THEN FallbackSamples
                            ELSE 0
         /\ cat_pc' = IF samples_left > 1 THEN "genres"
                      ELSE IF NeedFallback(all_tracks', count) THEN "fallback"
                      ELSE "select"
    /\ UNCHANGED <<genres_len, count, track_list, cat_result>>
    /\ UNCHANGED <<parVars, audVars, vidVars>>
    /\ UNCHANGED orchVars
    /\ UNCHANGED snipVars

\* one iteration of the popular-term loop
SearchPopular ==
    /\ cat_pc = "fallback"
    /\ samples_left > 0
    /\ \E tracks \in SearchResults :
         /\ all_tracks' = all_tracks \o tracks
         /\ search_log' = Append(search_log, Search("popular", PopularLimit, tracks))
    /\ samples_left' = samples_left - 1
    /\ cat_pc' = IF samples_left > 1 THEN "fallback" ELSE "select"
    /\ UNCHANGED <<genres_len, count, track_list, cat_result>>
    /\ UNCHANGED <<parVars, audVars, vidVars>>
    /\ UNCHANGED orchVars
    /\ UNCHANGED snipVars

\* deduplicate and return the random selection
SelectTracks ==
    /\ cat_pc = "select"
    /\ track_list' = Dedup(all_tracks, <<>>)
    /\ cat_result' \in Samples(track_list', SampleSize(Len(track_list'), count))
    /\ cat_pc' = "done"
    /\ UNCHANGED <<genres_len, count, samples_left, all_tracks, search_log>>
    /\ UNCHANGED <<parVars, audVars, vidVars>>
    /\ UNCHANGED orchVars
    /\ UNCHANGED snipVars

(***************************************************************************)
(* Audio assembler (audio_processor.py).                                   *)
(***************************************************************************)
MaxTracks == 3

SnippetDurations == {2, 3}

PauseDurations == {1, 2}

IntroDurations == {1, 2}

OutroDurations == {1, 2}

AnswerDurations == {1, 3}

\* lengths, in seconds, of the downloaded preview files
SourceLengths == {0, 1, 24}

EdgeMargin == 10

MinExtraLength == 20

\* the track list handed to the audio stage: distinct non-zero identifiers
TrackList(n) == [k \in 1..n |-> [track_id |-> k, track_name |-> "a"]]

\* a window that may run up to the last 10 seconds' edge with its start only
StartTimesToTrackEnd(audio_length, duration) ==
    IF audio_length > duration + MinExtraLength
    THEN EdgeMargin..(audio_length - EdgeMargin)
    ELSE {0}

\* start_time: random.uniform(10, audio_length - duration - 10), or 0
StartTimes(audio_length, duration) ==
    IF audio_length > duration + MinExtraLength
    THEN EdgeMargin..(audio_length - duration - EdgeMargin)
    ELSE {0}

\* len(audio[start:end]): a pydub slice is clamped to the audio's length
SliceLen(audio_length, start, end) ==
    Max(0, Min(audio_length, end) - Min(audio_length, start))

\* the values process_audio_snippet can return for a file of that length:
\* None (ok = FALSE) when loading or processing raised, else the faded slice
ProcessAudioSnippet(audio_length, duration) ==
    {[ok |-> FALSE, len |-> 0, start |-> 0, source |-> audio_length]} \cup
    {[ok |-> TRUE, len |-> SliceLen(audio_length, st, st + duration), start |-> st,
      source |-> audio_length] :
        st \in StartTimes(audio_length, duration)}

\* process_audio_snippet called on its own, for a file of any length up to
\* MaxSourceLength seconds and a duration up to MaxSnippetDuration seconds
MaxSourceLength == 40

MaxSnippetDuration == 12

NoSnippet == [ok |-> FALSE, len |-> 0, start |-> 0, source |-> 0]

SnippetIdle ==
    /\ snip_pc = "idle"
    /\ src_length = 0
    /\ req_duration = 0
    /\ snip = NoSnippet

SnippetStart ==
    /\ snip_pc = "call"
    /\ src_length \in 0..MaxSourceLength
    /\ req_duration \in 1..MaxSnippetDuration
    /\ snip = NoSnippet

\* the call, from loading the file to the return of the snippet or of None
ProcessSnippet ==
    /\ snip_pc = "call"
    /\ snip' \in ProcessAudioSnippet(src_length, req_duration)
    /\ snip_pc' = "returned"
    /\ UNCHANGED <<src_length, req_duration>>
    /\ UNCHANGED <<catVars, parVars, audVars, vidVars>>
    /\ UNCHANGED orchVars

\* "if snippet:" -- None and an empty AudioSegment are both falsy
Truthy(snippet) == snippet.ok /\ snippet.len > 0

Segment(kind, dur, track, start) ==
    [kind |-> kind, dur |-> dur, track |-> track, start |-> start]

\* create_silence(duration)
CreateSilence(kind, duration, track) == Segment(kind, duration, track, 0)

\* whether the intro silence is emitted in loop iteration i (0-based)
AddIntro(i) == i = 0

\* the segments appended for a successfully processed track, iteration i
EmittedNoPause(i, snippet, pause, intro) ==
    (IF AddIntro(i) THEN <<CreateSilence("intro", intro, 0)>> ELSE <<>>)
    \o <<Segment("snippet", snippet.len, i + 1, snippet.start)>>

Emitted(i, snippet, pause, intro) ==
    (IF AddIntro(i) THEN <<CreateSilence("intro", intro, 0)>> ELSE <<>>)
    \o <<CreateSilence("pause", pause, i + 1),
         Segment("snippet", snippet.len, i + 1, snippet.start)>>

\* total length of a concatenation of segments or clips
TotalDuration(segs) == SumSeq([k \in 1..Len(segs) |-> segs[k].dur])

ParamsStart ==
    /\ snippet_duration \in SnippetDurations
    /\ pause_duration \in PauseDurations
    /\ intro_duration \in IntroDurations
    /\ outro_duration \in OutroDurations
    /\ answer_duration \in AnswerDurations

AudioIdle ==
    /\ aud_pc = "idle"
    /\ aud_i = 0
    /\ audio_segments = <<>>
    /\ processed_tracks = <<>>
    /\ ok_log = <<>>
    /\ complete_audio = <<>>
    /\ returned_tracks = <<>>

AudioStart ==
    /\ aud_pc = "loop"
    /\ aud_i = 0
    /\ audio_segments = <<>>
    /\ processed_tracks = <<>>
    /\ ok_log = <<>>
    /\ complete_audio = <<>>
    /\ returned_tracks = <<>>

\* one iteration of the track loop whose download fails
DownloadFails ==
    /\ aud_pc = "loop"
    /\ aud_i < Len(tracks_info)
    /\ aud_i' = aud_i + 1
    /\ ok_log' = Append(ok_log, FALSE)
    /\ UNCHANGED <<aud_pc, audio_segments, processed_tracks, complete_audio, returned_tracks>>
    /\ UNCHANGED <<catVars, parVars, vidVars>>
    /\ UNCHANGED orchVars
    /\ UNCHANGED snipVars

\* one iteration of the track loop whose download succeeds
ProcessTrack ==
    /\ aud_pc = "loop"
    /\ aud_i < Len(tracks_info)
    /\ \E audio_length \in SourceLengths :
       \E snippet \in ProcessAudioSnippet(audio_length, snippet_duration) :
         IF Truthy(snippet)
         THEN /\ audio_segments' = audio_segments
                     \o Emitted(aud_i, snippet, pause_duration, intro_duration)
              /\ processed_tracks' = Append(processed_tracks, tracks_info[aud_i + 1])
              /\ ok_log' = Append(ok_log, TRUE)
         ELSE /\ ok_log' = Append(ok_log, FALSE)
              /\ UNCHANGED <<audio_segments, processed_tracks>>
    /\ aud_i' = aud_i + 1
    /\ UNCHANGED <<aud_pc, complete_audio, returned_tracks>>
    /\ UNCHANGED <<catVars, parVars, vidVars>>
    /\ UNCHANGED orchVars
    /\ UNCHANGED snipVars

\* after the loop: the concatenation and the processed tracks, or (empty, [])
AudioReturn ==
    /\ aud_pc = "loop"
    /\ aud_i = Len(tracks_info)
    /\ complete_audio' = audio_segments
    /\ returned_tracks' = IF audio_segments # <<>> THEN processed_tracks ELSE <<>>
    /\ aud_pc' = "returned"
    /\ UNCHANGED <<aud_i, audio_segments, processed_tracks, ok_log>>
    /\ UNCHANGED <<catVars, parVars, vidVars>>
    /\ UNCHANGED orchVars
    /\ UNCHANGED snipVars

(***************************************************************************)
(* The orchestrator between the two stages: stop when nothing was          *)
(* processed, save the audio, hand the file and the processed tracks to    *)
(* the video stage.                                                        *)
(***************************************************************************)
SaveAudio ==
    /\ aud_pc = "returned"
    /\ returned_tracks # <<>>
    /\ \E saved \in BOOLEAN :
         IF saved
         THEN /\ aud_pc' = "saved"
              /\ vid_pc' = "start"
              /\ vid_tracks' = returned_tracks
              /\ audio_duration' = TotalDuration(complete_audio)
         ELSE /\ aud_pc' = "save_failed"
              /\ UNCHANGED <<vid_pc, vid_tracks, audio_duration>>
    /\ UNCHANGED <<aud_i, audio_segments, processed_tracks, ok_log,
                   complete_audio, returned_tracks>>
    /\ UNCHANGED <<vid_i, video_clips, current_time, final_video, final_audio, vid_result>>
    /\ UNCHANGED <<catVars, parVars>>
    /\ UNCHANGED orchVars
    /\ UNCHANGED snipVars

(***************************************************************************)
(* Video renderer (video_generator.py).                                    *)
(***************************************************************************)
AudioFileDurations == {0, 4, 9, 30}

\* final_video / final_audio before the video is composed
NotBuilt == 0 - 1

Clip(kind, dur, track) == [kind |-> kind, dur |-> dur, track |-> track]

\* duration of the now-playing clip
MusicClipDurationWhole(snippet, answer) == snippet

MusicClipDuration(snippet, answer) == snippet - answer

\* create_music_playing_clip concatenates int(duration) one-second countdown
\* clips; concatenating none raises
MusicClipBuilt(duration) == duration >= 1

\* the three clips of track number i
TrackClips(i, snippet, pause, answer) ==
    <<Clip("countdown", pause, i),
      Clip("playing", MusicClipDuration(snippet, answer), i),
      Clip("answer", answer, i)>>

\* the end of the attached audio: audio.subclip(0, ...)
AudioEnd(audio_len, video_len) == Min(audio_len, video_len)

VideoIdle ==
    /\ vid_pc = "idle"
    /\ vid_tracks = <<>>
    /\ audio_duration = 0
    /\ vid_i = 0
    /\ video_clips = <<>>
    /\ current_time = 0
    /\ final_video = NotBuilt
    /\ final_audio = NotBuilt
    /\ vid_result = "None"

VideoStart ==
    /\ vid_pc = "start"
    /\ vid_tracks = tracks_info
    /\ audio_duration \in AudioFileDurations
    /\ vid_i = 0
    /\ video_clips = <<>>
    /\ current_time = 0
    /\ final_video = NotBuilt
    /\ final_audio = NotBuilt
    /\ vid_result = "None"

\* load the audio file, build the intro clip
VideoIntro ==
    /\ vid_pc = "start"
    /\ video_clips' = <<Clip("intro", intro_duration, 0)>>
    /\ current_time' = current_time + intro_duration
    /\ vid_i' = 1
    /\ vid_pc' = "tracks"
    /\ UNCHANGED <<vid_tracks, audio_duration, final_video, final_audio, vid_result>>
    /\ UNCHANGED <<catVars, parVars, audVars>>
    /\ UNCHANGED orchVars
    /\ UNCHANGED snipVars

\* one iteration of the track loop; a clip that cannot be built raises,
\* and the handler returns False
VideoTrack ==
    /\ vid_pc = "tracks"
    /\ vid_i <= Len(vid_tracks)
    /\ IF MusicClipBuilt(MusicClipDuration(snippet_duration, answer_duration))
       THEN /\ video_clips' = video_clips
                   \o TrackClips(vid_i, snippet_duration, pause_duration, answer_duration)
            /\ current_time' = current_time + pause_duration
                   + MusicClipDuration(snippet_duration, answer_duration) + answer_duration
            /\ vid_i' = vid_i + 1
            /\ UNCHANGED <<vid_pc, vid_result>>
       ELSE /\ vid_pc' = "done"
            /\ vid_result' = "False"
            /\ UNCHANGED <<video_clips, current_time, vid_i>>
    /\ UNCHANGED <<vid_tracks, audio_duration, final_video, final_audio>>
    /\ UNCHANGED <<catVars, parVars, audVars>>
    /\ UNCHANGED orchVars
    /\ UNCHANGED snipVars

\* outro, concatenation, audio attached and trimmed, export
VideoFinish ==
    /\ vid_pc = "tracks"
    /\ vid_i > Len(vid_tracks)
    /\ video_clips' = Append(video_clips, Clip("outro", outro_duration, 0))
    /\ final_video' = TotalDuration(video_clips')
    /\ final_audio' = AudioEnd(audio_duration, final_video')
    /\ \E exported \in {"True", "False"} : vid_result' = exported
    /\ vid_pc' = "done"
    /\ UNCHANGED <<vid_tracks, audio_duration, vid_i, current_time>>
    /\ UNCHANGED <<catVars, parVars, audVars>>
    /\ UNCHANGED orchVars
    /\ UNCHANGED snipVars

\* any other exception while composing (a font, an image, the audio file)
VideoError ==
    /\ vid_pc \in {"start", "tracks"}
    /\ vid_pc' = "done"
    /\ vid_result' = "False"
    /\ UNCHANGED <<vid_tracks, audio_duration, vid_i, video_clips, current_time,
                   final_video, final_audio>>
    /\ UNCHANGED <<catVars, parVars, audVars>>
    /\ UNCHANGED orchVars
    /\ UNCHANGED snipVars

(***************************************************************************)
(* Upload client (youtube_api.py).                                         *)
(***************************************************************************)
MaxChunks == 2

MAX_RETRIES == 10

RETRIABLE_STATUS_CODES == {500, 502, 503, 504}

\* statuses an HttpError of next_chunk may carry
HttpStatuses == {400, 403, 500, 502, 503, 504}

Outcome(kind, status, has_id) == [kind |-> kind, status |-> status, has_id |-> has_id]

\* what one call of insert_request.next_chunk() can do: return a response
\* (with or without "id"), return (status, None) after an intermediate chunk,
\* raise HttpError, raise one of RETRIABLE_EXCEPTIONS, raise anything else,
\* or be interrupted by the user
ChunkOutcomes ==
    {Outcome("response", 0, b) : b \in BOOLEAN}
    \cup {Outcome("progress", 0, FALSE)}
    \cup {Outcome("http_error", s, FALSE) : s \in HttpStatuses}
    \cup {Outcome("retriable_exception", 0, FALSE),
          Outcome("other_exception", 0, FALSE),
          Outcome("interrupt", 0, FALSE)}

\* the except clauses that set error instead of re-raising
IsRetriableAnyStatus(o) ==
    o.kind \in {"http_error", "retriable_exception"}

IsRetriable(o) ==
    \/ o.kind = "http_error" /\ o.status \in RETRIABLE_STATUS_CODES
    \/ o.kind = "retriable_exception"

\* exceptions that leave resumable_upload
IsFatal(o) ==
    \/ o.kind = "http_error" /\ ~IsRetriable(o)
    \/ o.kind = "other_exception"

\* "if retry > MAX_RETRIES: break"
GiveUpOneEarly(r) == r >= MAX_RETRIES

GiveUp(r) == r > MAX_RETRIES

\* error after the sleep ("error = None")
ErrorKeptAfterSleep == "set"

ErrorAfterSleep == "None"

\* what next_chunk did, as entered in the log of attempts and sleeps
LogEntry(o) ==
    CASE o.kind = "http_error" ->
             IF o.status \in RETRIABLE_STATUS_CODES THEN "fail" ELSE "http_fatal"
      [] o.kind = "retriable_exception" -> "fail"
      [] OTHER -> o.kind

CountOf(log, entry) == Cardinality({k \in 1..Len(log) : log[k] = entry})

\* a retry counter that starts again after an attempt without error
NextRetryPerChunk(r, failed) == IF failed THEN r + 1 ELSE 0

\* "retry = 0" before the loop, "retry += 1" under "if error is not None:",
\* and no other assignment
NextRetry(r, failed) == IF failed THEN r + 1 ELSE r

\* an authorization flow on every start
NeedsFlowAlways(c) == TRUE

\* "if credentials is None or credentials.invalid": run_flow(flow, storage)
NeedsFlow(c) == c \in {"absent", "invalid"}

UploadIdle ==
    /\ credentials \in {"absent", "invalid", "valid"}
    /\ flow_ran = FALSE
    /\ up_pc = "idle"
    /\ response = "None"
    /\ error = "None"
    /\ retry = 0
    /\ up_log = <<>>
    /\ up_outcome = "none"

\* YouTubeAPI(client_secrets_file): get_authenticated_service, then
\* upload_video -> initialize_upload enters resumable_upload
GetAuthenticatedService ==
    /\ main_pc = "upload"
    /\ up_pc = "idle"
    /\ \E r \in {"ok", "exception", "interrupt"} :
         IF r = "ok"
         THEN /\ flow_ran' = NeedsFlow(credentials)
              /\ credentials' = "valid"
              /\ up_pc' = "loop"
              /\ UNCHANGED up_outcome
         ELSE /\ up_pc' = "raised"
              /\ up_outcome' = IF r = "interrupt" THEN "interrupted" ELSE "raised_other"
              /\ UNCHANGED <<credentials, flow_ran>>
    /\ UNCHANGED <<response, error, retry, up_log>>
    /\ UNCHANGED <<mainVars, catVars, parVars, audVars, vidVars>>
    /\ UNCHANGED snipVars

\* one iteration of "while response is None"
NextChunk ==
    /\ main_pc = "upload"
    /\ up_pc = "loop"
    /\ \E o \in ChunkOutcomes :
         /\ o.kind = "progress" => CountOf(up_log, "progress") < MaxChunks
         /\ IF IsFatal(o) \/ o.kind = "interrupt"
            THEN /\ up_log' = Append(up_log, LogEntry(o))
                 /\ up_pc' = "raised"
                 /\ up_outcome' = IF o.kind = "interrupt" THEN "interrupted"
                                  ELSE IF o.kind = "http_error" THEN "raised_http"
                                  ELSE "raised_other"
                 /\ UNCHANGED <<response, error, retry>>
            ELSE LET resp == IF o.kind = "response"
                             THEN (IF o.has_id THEN "id" ELSE "no_id") ELSE "None"
                     err == IF IsRetriable(o) THEN "set" ELSE error
                     stop == err # "None" /\ GiveUp(NextRetry(retry, TRUE))
                     slept == err # "None" /\ ~stop
                 IN /\ response' = resp
                    /\ retry' = NextRetry(retry, err # "None")
                    /\ error' = IF slept THEN ErrorAfterSleep ELSE err
                    /\ up_log' = Append(up_log, LogEntry(o))
                                   \o (IF slept THEN <<"sleep">> ELSE <<>>)
                    /\ up_pc' = IF stop \/ resp # "None" THEN "returned" ELSE "loop"
                    /\ up_outcome' = IF stop THEN "gave_up"
                                     ELSE IF resp = "id" THEN "done"
                                     ELSE IF resp = "no_id" THEN "no_id"
                                     ELSE up_outcome
    /\ UNCHANGED <<credentials, flow_ran>>
    /\ UNCHANGED <<mainVars, catVars, parVars, audVars, vidVars>>
    /\ UNCHANGED snipVars

(***************************************************************************)
(* Orchestrator (blind_test_generator.py, main).                           *)
(***************************************************************************)
ShortVideoLimit == 60

DefaultAnswerDuration == 4

\* run parameters: 38 s, 74 s, exactly 60 s and 61 s of estimated duration
MainConfigs ==
    {[n |-> 3, snippet |-> 10, pause |-> 2, intro |-> 1, outro |-> 1],
     [n |-> 6, snippet |-> 10, pause |-> 2, intro |-> 1, outro |-> 1],
     [n |-> 5, snippet |-> 10, pause |-> 2, intro |-> 0, outro |-> 0],
     [n |-> 5, snippet |-> 10, pause |-> 2, intro |-> 1, outro |-> 0]}

\* video_duration, the estimate printed before anything starts
EstimatedDuration ==
    num_tracks * (snippet_duration + pause_duration) + intro_duration + outro_duration

\* a prompt already at the limit itself
NeedsConfirmationAtLimit(d) == d >= ShortVideoLimit

\* "if video_duration > 60:"
NeedsConfirmation(d) == d > ShortVideoLimit

\* whether main goes on after a stage ("if not tracks_info: return False", ...)
ProceedsEvenWithoutAudio(stage, result) == result = "ok" \/ stage = "audio"

Proceeds(stage, result) == result = "ok"

MainStart ==
    /\ \E c \in MainConfigs :
         /\ num_tracks = c.n
         /\ snippet_duration = c.snippet
         /\ pause_duration = c.pause
         /\ intro_duration = c.intro
         /\ outro_duration = c.outro
    /\ answer_duration = DefaultAnswerDuration
    /\ tracks_info = <<>>
    /\ upload \in BOOLEAN
    /\ main_pc = "estimate"
    /\ main_result = "None"
    /\ prompted = FALSE
    /\ audio_temp_dir = "none"
    /\ video_temp_dir = "none"
    /\ stage_log = <<>>
    /\ printed = {}

MainIdle ==
    /\ num_tracks = 0
    /\ upload = FALSE
    /\ main_pc = "idle"
    /\ main_result = "None"
    /\ prompted = FALSE
    /\ audio_temp_dir = "none"
    /\ video_temp_dir = "none"
    /\ stage_log = <<>>
    /\ printed = {}

\* the estimate and, above the limit, the blocking input(); an interrupt at
\* the prompt is raised outside the try statement and leaves main
ConfirmDuration ==
    /\ main_pc = "estimate"
    /\ IF NeedsConfirmation(EstimatedDuration)
       THEN /\ prompted' = TRUE
            /\ \E answer \in {"enter", "interrupt"} :
                 IF answer = "enter"
                 THEN main_pc' = "init_audio" /\ UNCHANGED main_result
                 ELSE main_pc' = "done" /\ main_result' = "KeyboardInterrupt"
       ELSE /\ main_pc' = "init_audio"
            /\ UNCHANGED <<prompted, main_result>>
    /\ UNCHANGED <<num_tracks, upload, audio_temp_dir, video_temp_dir, stage_log, printed>>
    /\ UNCHANGED <<upVars, catVars, parVars, audVars, vidVars>>
    /\ UNCHANGED snipVars

\* audio_processor = AudioProcessor(): tempfile.mkdtemp(), before the try
InitAudioProcessor ==
    /\ main_pc = "init_audio"
    /\ \E made \in BOOLEAN :
         IF made
         THEN /\ audio_temp_dir' = "exists"
              /\ main_pc' = "init_video"
              /\ UNCHANGED main_result
         ELSE /\ main_pc' = "done"
              /\ main_result' = "raised"
              /\ UNCHANGED audio_temp_dir
    /\ UNCHANGED <<num_tracks, upload, prompted, video_temp_dir, stage_log, printed>>
    /\ UNCHANGED <<upVars, catVars, parVars, audVars, vidVars>>
    /\ UNCHANGED snipVars

\* video_generator = VideoGenerator(): tempfile.mkdtemp(), before the try
InitVideoGenerator ==
    /\ main_pc = "init_video"
    /\ \E made \in BOOLEAN :
         IF made
         THEN /\ video_temp_dir' = "exists"
              /\ main_pc' = "fetch"
              /\ UNCHANGED main_result
         ELSE /\ main_pc' = "done"
              /\ main_result' = "raised"
              /\ UNCHANGED video_temp_dir
    /\ UNCHANGED <<num_tracks, upload, prompted, audio_temp_dir, stage_log, printed>>
    /\ UNCHANGED <<upVars, catVars, parVars, audVars, vidVars>>
    /\ UNCHANGED snipVars

\* results of a stage call: a usable value, an empty or False value, an
\* exception, a user interrupt
StageResults == {"ok", "failed", "exception", "interrupt"}

\* a stage inside the try statement: go on, or return False (an empty or
\* failed result, "except Exception", "except KeyboardInterrupt")
Stage(stage, next) ==
    /\ main_pc = stage
    /\ \E result \in StageResults :
         /\ stage_log' = Append(stage_log, <<stage, result>>)
         /\ IF Proceeds(stage, result)
            THEN /\ main_pc' = next
                 /\ UNCHANGED main_result
            ELSE /\ main_pc' = "finally"
                 /\ main_result' = "False"
    /\ UNCHANGED <<num_tracks, upload, prompted, audio_temp_dir, video_temp_dir, printed>>
    /\ UNCHANGED <<upVars, catVars, parVars, audVars, vidVars>>
    /\ UNCHANGED snipVars

\* Step 1: itunes.get_random_tracks
FetchTracks == Stage("fetch", "audio")

\* Step 2: audio_processor.create_blind_test_audio
CreateAudio == Stage("audio", "save")

\* audio_processor.save_audio
SaveAudioFile == Stage("save", "video")

\* Step 3: video_generator.generate_blind_test_video
GenerateVideo == Stage("video", "uploading")

\* an upload whatever the flag says
WantsUploadAlways(flag) == TRUE

\* "if upload:"
WantsUpload(flag) == flag

\* "if upload:" after the success messages, else return True
UploadOrReturn ==
    /\ main_pc = "uploading"
    /\ IF WantsUpload(upload)
       THEN main_pc' = "upload" /\ UNCHANGED main_result
       ELSE main_pc' = "finally" /\ main_result' = "True"
    /\ UNCHANGED <<num_tracks, upload, prompted, audio_temp_dir, video_temp_dir,
                   stage_log, printed>>
    /\ UNCHANGED <<upVars, catVars, parVars, audVars, vidVars>>
    /\ UNCHANGED snipVars

\* upload_video returned: the success message, return True
UploadReturns ==
    /\ main_pc = "upload"
    /\ up_pc = "returned"
    /\ printed' = printed \cup {"Video uploaded successfully!"}
    /\ stage_log' = Append(stage_log, <<"upload", up_outcome>>)
    /\ main_result' = "True"
    /\ main_pc' = "finally"
    /\ UNCHANGED <<num_tracks, upload, prompted, audio_temp_dir, video_temp_dir>>
    /\ UNCHANGED <<upVars, catVars, parVars, audVars, vidVars>>
    /\ UNCHANGED snipVars

\* the upload raised: "except Exception" prints the failure and main returns
\* True; a KeyboardInterrupt reaches the outer handler, which returns False
UploadRaises ==
    /\ main_pc = "upload"
    /\ up_pc = "raised"
    /\ stage_log' = Append(stage_log, <<"upload", up_outcome>>)
    /\ IF up_outcome = "interrupted"
       THEN /\ main_result' = "False"
            /\ UNCHANGED printed
       ELSE /\ main_result' = "True"
            /\ printed' = printed \cup {"Video upload failed"}
    /\ main_pc' = "finally"
    /\ UNCHANGED <<num_tracks, upload, prompted, audio_temp_dir, video_temp_dir>>
    /\ UNCHANGED <<upVars, catVars, parVars, audVars, vidVars>>
    /\ UNCHANGED snipVars

\* cleanup(): shutil.rmtree(self.temp_dir); removing the directory the
\* process made itself is taken to succeed
CleanedUp(dir) == IF dir = "exists" THEN "removed" ELSE dir

\* finally: audio_processor.cleanup(), video_generator.cleanup()
Finally ==
    /\ main_pc = "finally"
    /\ audio_temp_dir' = CleanedUp(audio_temp_dir)
    /\ video_temp_dir' = CleanedUp(video_temp_dir)
    /\ main_pc' = "done"
    /\ UNCHANGED <<num_tracks, upload, prompted, main_result, stage_log, printed>>
    /\ UNCHANGED <<upVars, catVars, parVars, audVars, vidVars>>
    /\ UNCHANGED snipVars

(***************************************************************************)
(* Specifications.                                                         *)
(***************************************************************************)
InitCatalog ==
    /\ CatalogStart
    /\ SnippetIdle
    /\ tracks_info = <<>>
    /\ snippet_duration = 0 /\ pause_duration = 0 /\ intro_duration = 0
    /\ outro_duration = 0 /\ answer_duration = 0
    /\ AudioIdle
    /\ VideoIdle
    /\ UploadIdle /\ credentials = "valid"
    /\ MainIdle

NextCatalog == SearchGenre \/ SearchPopular \/ SelectTracks

SpecCatalog == InitCatalog /\ [][NextCatalog]_vars

InitPipeline ==
    /\ CatalogIdle
    /\ \E n \in 0..MaxTracks : tracks_info = TrackList(n)
    /\ ParamsStart
    /\ SnippetIdle
    /\ AudioStart
    /\ VideoIdle
    /\ UploadIdle /\ credentials = "valid"
    /\ MainIdle

NextPipeline ==
    \/ DownloadFails
    \/ ProcessTrack
    \/ AudioReturn
    \/ SaveAudio
    \/ VideoIntro
    \/ VideoTrack
    \/ VideoFinish
    \/ VideoError

SpecPipeline == InitPipeline /\ [][NextPipeline]_vars

InitVideo ==
    /\ CatalogIdle
    /\ \E n \in 0..MaxTracks : tracks_info = TrackList(n)
    /\ ParamsStart
    /\ SnippetIdle
    /\ AudioIdle
    /\ VideoStart
    /\ UploadIdle /\ credentials = "valid"
    /\ MainIdle

NextVideo == VideoIntro \/ VideoTrack \/ VideoFinish \/ VideoError

SpecVideo == InitVideo /\ [][NextVideo]_vars

InitSnippet ==
    /\ CatalogIdle
    /\ tracks_info = <<>>
    /\ snippet_duration = 0 /\ pause_duration = 0 /\ intro_duration = 0
    /\ outro_duration = 0 /\ answer_duration = 0
    /\ SnippetStart
    /\ AudioIdle
    /\ VideoIdle
    /\ UploadIdle /\ credentials = "valid"
    /\ MainIdle

NextSnippet == ProcessSnippet

SpecSnippet == InitSnippet /\ [][NextSnippet]_vars

\* one upload on its own: YouTubeAPI(...).upload_video(...) as main calls it
InitUpload ==
    /\ CatalogIdle
    /\ tracks_info = <<>>
    /\ snippet_duration = 0 /\ pause_duration = 0 /\ intro_duration = 0
    /\ outro_duration = 0 /\ answer_duration = 0
    /\ SnippetIdle
    /\ AudioIdle
    /\ VideoIdle
    /\ UploadIdle
    /\ num_tracks = 0
    /\ upload = TRUE
    /\ main_pc = "upload"
    /\ main_result = "None"
    /\ prompted = FALSE
    /\ audio_temp_dir = "none"
    /\ video_temp_dir = "none"
    /\ stage_log = <<>>
    /\ printed = {}

NextUpload == GetAuthenticatedService \/ NextChunk

\* the loop is sequential code: as long as "while response is None" has
\* another iteration to run, it runs it (next_chunk returns or raises, and a
\* backoff sleep lasts at most 2**retry seconds)
FairUpload == WF_vars(NextChunk)

SpecUpload == InitUpload /\ [][NextUpload]_vars /\ FairUpload

Init ==
    /\ CatalogIdle
    /\ SnippetIdle
    /\ AudioIdle
    /\ VideoIdle
    /\ UploadIdle
    /\ MainStart

Next ==
    \/ ConfirmDuration
    \/ InitAudioProcessor
    \/ InitVideoGenerator
    \/ FetchTracks
    \/ CreateAudio
    \/ SaveAudioFile
    \/ GenerateVideo
    \/ UploadOrReturn
    \/ GetAuthenticatedService
    \/ NextChunk
    \/ UploadReturns
    \/ UploadRaises
    \/ Finally

Spec == Init /\ [][Next]_vars

(***************************************************************************)
(* Claims.                                                                 *)
(***************************************************************************)
\* input positions (1-based) of the tracks whose download and processing succeeded
SucceededPositions == SelectSeq([k \in 1..Len(ok_log) |-> k], LAMBDA k : ok_log[k])

\* the assembled audio without the intro silence
AudioBody == SelectSeq(audio_segments, LAMBDA g : g.kind # "intro")

\* C1: the processed-track list is the subsequence of the input tracks that
\* succeeded, in input order, and the audio holds one (pause, snippet) pair
\* per processed track in that order and nothing for a failed track; what
\* create_blind_test_audio returns is that list and that audio.
C1_OrderPreservingFailureSkipping ==
    /\ processed_tracks =
           [j \in 1..Len(SucceededPositions) |-> tracks_info[SucceededPositions[j]]]
    /\ Len(AudioBody) = 2 * Len(SucceededPositions)
    /\ \A j \in 1..Len(SucceededPositions) :
           /\ AudioBody[2 * j - 1].kind = "pause"
           /\ AudioBody[2 * j - 1].dur = pause_duration
           /\ AudioBody[2 * j - 1].track = SucceededPositions[j]
           /\ AudioBody[2 * j].kind = "snippet"
           /\ AudioBody[2 * j].track = SucceededPositions[j]
    /\ aud_pc \in {"returned", "saved", "save_failed"} =>
           /\ returned_tracks = processed_tracks
           /\ complete_audio = audio_segments

\* three tracks, the second fails, the other two are processed
C1_Witness ==
    /\ aud_pc = "returned"
    /\ ok_log = <<TRUE, FALSE, TRUE>>
    /\ Len(returned_tracks) = 2

\* C2: a video that was built lasts intro + n * (pause + snippet) + outro for
\* its n tracks, and the attached audio is the audio file cut to
\* min(audio length, video length), so never longer than the video.
C2_TimingIdentity ==
    vid_result = "True" =>
        /\ final_video = intro_duration
               + Len(vid_tracks) * (pause_duration + snippet_duration) + outro_duration
        /\ final_video = TotalDuration(video_clips)
        /\ current_time = final_video - outro_duration
        /\ final_audio = Min(audio_duration, final_video)
        /\ final_audio <= final_video
        /\ final_audio <= audio_duration

\* a video of two tracks or more whose audio file is longer than the video
C2_Witness ==
    /\ vid_result = "True"
    /\ Len(vid_tracks) >= 2
    /\ audio_duration > final_video
    /\ final_audio = final_video

\* position in segs of the j-th segment of that kind
RECURSIVE NthOfKind(_, _, _, _)
NthOfKind(segs, kind, j, from) ==
    IF segs[from].kind = kind
    THEN IF j = 1 THEN from ELSE NthOfKind(segs, kind, j - 1, from + 1)
    ELSE NthOfKind(segs, kind, j, from + 1)

\* the time at which the j-th segment of that kind begins
StartOffset(segs, kind, j) ==
    TotalDuration(SubSeq(segs, 1, NthOfKind(segs, kind, j, 1) - 1))

\* C3: in a rendered run, the j-th processed track's snippet begins in the
\* audio where its now-playing clip begins in the video, at
\* intro + (j-1) * (pause + snippet) + pause.
C3_AudioVideoSynchronized ==
    (vid_pc = "done" /\ vid_result = "True" /\ aud_pc = "saved") =>
        \A j \in 1..Len(vid_tracks) :
            /\ StartOffset(complete_audio, "snippet", j)
                   = StartOffset(video_clips, "playing", j)
            /\ StartOffset(video_clips, "playing", j)
                   = intro_duration + (j - 1) * (pause_duration + snippet_duration)
                         + pause_duration

\* number of retriable failures of next_chunk so far
Failures == CountOf(up_log, "fail")

\* C4: k retriable failures in a row (1 <= k <= MAX_RETRIES) and then a
\* response: the upload completes after k+1 attempts and k sleeps, one sleep
\* after each failed attempt and before the next attempt; as long as there
\* were no more than MAX_RETRIES failures the upload has not given up.
C4_RetryThenSuccess ==
    /\ (/\ up_pc = "returned"
        /\ response # "None"
        /\ CountOf(up_log, "progress") = 0
        /\ Failures >= 1)
       => /\ Failures <= MAX_RETRIES
          /\ retry = Failures
          /\ Len(up_log) = 2 * Failures + 1
          /\ \A j \in 1..Failures :
                 up_log[2 * j - 1] = "fail" /\ up_log[2 * j] = "sleep"
          /\ Last(up_log) = "response"
    /\ up_outcome = "gave_up" => Failures > MAX_RETRIES

\* MAX_RETRIES failures, then the response: the upload is done
C4_Witness ==
    /\ up_pc = "returned"
    /\ up_outcome = "done"
    /\ Failures = MAX_RETRIES
    /\ CountOf(up_log, "sleep") = MAX_RETRIES
    /\ Len(up_log) = 2 * MAX_RETRIES + 1

\* C5: after MAX_RETRIES + 1 retriable failures the upload stops: it returns
\* (no exception), having slept MAX_RETRIES times, with the failed attempt as
\* its last act (no sleep and no attempt after it).
C5_RetryCap ==
    up_outcome = "gave_up" =>
        /\ up_pc = "returned"
        /\ response = "None"
        /\ Failures = MAX_RETRIES + 1
        /\ CountOf(up_log, "sleep") = MAX_RETRIES
        /\ Last(up_log) = "fail"
        /\ main_result # "raised"
        /\ CountOf(up_log, "progress") = 0 =>
               /\ Len(up_log) = 2 * MAX_RETRIES + 1
               /\ \A j \in 1..MAX_RETRIES :
                      up_log[2 * j - 1] = "fail" /\ up_log[2 * j] = "sleep"

\* MAX_RETRIES + 1 failures in a row, and main has finished
C5_Witness ==
    /\ up_outcome = "gave_up"
    /\ CountOf(up_log, "progress") = 0
    /\ main_pc = "done"

\* an HTTP error with a non-retriable status is the last entry of the log:
\* it left resumable_upload at once, with no sleep and no attempt after it
FatalHttpErrorPropagates ==
    \A k \in 1..Len(up_log) :
        up_log[k] = "http_fatal" =>
            /\ k = Len(up_log)
            /\ up_pc = "raised"
            /\ up_outcome = "raised_http"
            /\ response = "None"

UploadFailures == {"gave_up", "no_id", "raised_http", "raised_other"}

StageFailed(entry) ==
    IF entry[1] = "upload" THEN entry[2] \in UploadFailures ELSE entry[2] = "failed"

FoundIds == {all_tracks[k].track_id : k \in 1..Len(all_tracks)}

\* position of the first descriptor with that identifier in search order
FirstOccurrence(id) ==
    CHOOSE i \in 1..Len(all_tracks) :
        /\ all_tracks[i].track_id = id
        /\ \A j \in 1..(i - 1) : all_tracks[j].track_id # id

\* C9 as stated: the result has min(pool size, count) tracks, the pool being
\* the tracks found, one per identifier.
C9_Original_SizeOverAllIdentifiers ==
    cat_pc = "done" => Len(cat_result) = Min(Cardinality(FoundIds), count)

\* C9 amended: the pool holds one track per non-zero identifier found; the
\* result has min(pool size, count) tracks, each a member of the pool.
C9_SizeIsMinOfPoolAndCount ==
    cat_pc = "done" =>
        /\ Len(track_list) = Cardinality(FoundIds \ {0})
        /\ Len(cat_result) = Min(Cardinality(FoundIds \ {0}), count)
        /\ \A j \in 1..Len(cat_result) :
               \E k \in 1..Len(track_list) : cat_result[j] = track_list[k]

\* a pool of two tracks for a request of three: two are returned
C9_Witness ==
    /\ cat_pc = "done"
    /\ count = 3
    /\ Cardinality(FoundIds \ {0}) = 2
    /\ Len(cat_result) = 2

\* C10: the merged pool and the result hold at most one track per identifier,
\* and each holds, for its identifier, the first descriptor found.
C10_FirstOccurrenceWins ==
    cat_pc = "done" =>
        /\ \A a, b \in 1..Len(track_list) :
               a # b => track_list[a].track_id # track_list[b].track_id
        /\ \A a, b \in 1..Len(cat_result) :
               a # b => cat_result[a].track_id # cat_result[b].track_id
        /\ \A k \in 1..Len(track_list) :
               track_list[k] = all_tracks[FirstOccurrence(track_list[k].track_id)]
        /\ \A k \in 1..Len(cat_result) :
               cat_result[k] = all_tracks[FirstOccurrence(cat_result[k].track_id)]

\* two different descriptors share an identifier; the first one is returned
C10_Witness ==
    /\ cat_pc = "done"
    /\ \E i, j \in 1..Len(all_tracks) :
           /\ i < j
           /\ all_tracks[i].track_id = all_tracks[j].track_id
           /\ all_tracks[i] # all_tracks[j]
           /\ \A h \in 1..(i - 1) : all_tracks[h].track_id # all_tracks[i].track_id
           /\ \E k \in 1..Len(cat_result) : cat_result[k] = all_tracks[i]

(***************************************************************************)
(* C11 - C19                                                               *)
(***************************************************************************)
\* number of distinct truthy identifiers among ts (the size of the pool that
\* the dedup loop would build from ts)
PoolSize(ts) == Cardinality({ts[k].track_id : k \in 1..Len(ts)} \ {0})

\* how many descriptors the searches before the k-th one have returned
FoundBefore(k) == SumSeq([j \in 1..(k - 1) |-> search_log[j].found])

PopularSearches == {k \in 1..Len(search_log) : search_log[k].term = "popular"}

GenreSearches == {k \in 1..Len(search_log) : search_log[k].term = "genre"}

\* all_tracks as it was when the genre loop ended
TracksAfterGenres == SubSeq(all_tracks, 1, FoundBefore(Cardinality(GenreSearches) + 1))

\* C11: once the searches of get_random_tracks are over, if the genre searches
\* left fewer than count distinct identifiers in the pool then popular-term
\* searches were issued; every popular-term search was issued with limit 15
\* while the pool was still short of count, and there are at most 3 of them.
C11_FallbackTopsUpUniquePool ==
    cat_pc \in {"select", "done"} =>
        /\ PoolSize(TracksAfterGenres) < count => PopularSearches # {}
        /\ Cardinality(PopularSearches) <= FallbackSamples
        /\ \A k \in PopularSearches :
               /\ search_log[k].limit = PopularLimit
               /\ PoolSize(SubSeq(all_tracks, 1, FoundBefore(k))) < count

\* C12: a snippet returned for a source longer than duration + 20 seconds
\* starts between 10 and length - duration - 10 seconds, so that its window
\* ends at least 10 seconds before the end of the track; for any other
\* source it starts at 0.
C12_StartOffsetWindow ==
    (snip_pc = "returned" /\ snip.ok) =>
        IF src_length > req_duration + 20
        THEN /\ 10 <= snip.start
             /\ snip.start <= src_length - req_duration - 10
             /\ snip.start + req_duration <= src_length - 10
        ELSE snip.start = 0

\* a long source whose snippet was taken at the latest allowed start
C12_Witness ==
    /\ snip_pc = "returned"
    /\ snip.ok
    /\ src_length > req_duration + 20
    /\ snip.start > 10
    /\ snip.start = src_length - req_duration - 10

\* C17: a snippet returned by process_audio_snippet is exactly duration
\* seconds long, whatever the length of the source.
C17_SnippetHasRequestedLength ==
    (snip_pc = "returned" /\ snip.ok) => snip.len = req_duration

\* C13: as long as main is at the estimate nothing has started (no temporary
\* directory, no stage, no upload); once it is past it, the user was prompted
\* if and only if intro + num_tracks * (snippet + pause) + outro exceeds 60:
\* not for 38 seconds, not for exactly 60, but for 61 and for 74.
C13_EstimateAndConfirmation ==
    /\ main_pc = "estimate" =>
           /\ ~prompted
           /\ stage_log = <<>>
           /\ audio_temp_dir = "none" /\ video_temp_dir = "none"
           /\ up_pc = "idle"
    /\ main_pc # "estimate" =>
           /\ prompted <=> (intro_duration + num_tracks * (snippet_duration + pause_duration)
                                + outro_duration > 60)
           /\ (num_tracks = 3 /\ intro_duration = 1 /\ outro_duration = 1) => ~prompted
           /\ (num_tracks = 6 /\ intro_duration = 1 /\ outro_duration = 1) => prompted
           /\ (num_tracks = 5 /\ intro_duration = 0 /\ outro_duration = 0) => ~prompted
           /\ (num_tracks = 5 /\ intro_duration = 1 /\ outro_duration = 0) => prompted

\* the 74-second run of 6 tracks was confirmed at the prompt and went on
C13_Witness ==
    /\ num_tracks = 6
    /\ EstimatedDuration = 74
    /\ prompted
    /\ main_pc = "fetch"

\* a user interrupt was delivered to the run: at the prompt, in a stage, or
\* during the upload
Interrupted ==
    \/ main_result = "KeyboardInterrupt"
    \/ \E k \in 1..Len(stage_log) : stage_log[k][2] \in {"interrupt", "interrupted"}

\* C14: a run of main that was interrupted by the user ends with the result
\* False, the interrupt does not leave main, and no temporary directory is
\* left behind.
C14_InterruptCaughtAndCleaned ==
    (main_pc = "done" /\ Interrupted) =>
        /\ main_result = "False"
        /\ audio_temp_dir # "exists"
        /\ video_temp_dir # "exists"

\* the state of the upload client, read off the position of the upload run,
\* its log of chunk attempts and its outcome
UploadState ==
    CASE up_pc = "idle" -> "UNAUTHENTICATED"
      [] up_pc = "loop" /\ up_log = <<>> -> "AUTHENTICATED"
      [] up_pc = "loop" /\ up_log # <<>> -> "UPLOADING"
      [] up_pc = "returned" /\ up_outcome = "done" -> "DONE"
      [] OTHER -> "FAILED"

StateRank(st) ==
    CASE st = "UNAUTHENTICATED" -> 0
      [] st = "AUTHENTICATED" -> 1
      [] st = "UPLOADING" -> 2
      [] OTHER -> 3

\* chunk attempts are made with valid credentials only, and an upload that
\* ended in the loop (DONE, or FAILED by the cap, a response without an
\* identifier or a fatal HTTP error) has attempted a chunk
AttemptsAreAuthenticated ==
    /\ (up_pc = "loop" \/ up_log # <<>>) => credentials = "valid"
    /\ up_outcome \in {"done", "gave_up", "no_id", "raised_http"} => up_log # <<>>
    /\ UploadState = "UNAUTHENTICATED" => (up_log = <<>> /\ ~flow_ran)

\* C15: in every step of a run the upload client keeps or advances its state
\* in the order UNAUTHENTICATED, AUTHENTICATED, UPLOADING, DONE or FAILED;
\* chunks are attempted with valid credentials only; the authorization flow
\* runs only from absent or invalid persisted credentials; and once DONE or
\* FAILED is reached the state, the log of attempts and sleeps and the retry
\* counter do not change any more.
C15_UploadStateOrder ==
    [][/\ AttemptsAreAuthenticated /\ AttemptsAreAuthenticated'
       /\ StateRank(UploadState') >= StateRank(UploadState)
       /\ (flow_ran' /\ ~flow_ran) =>
              (UploadState = "UNAUTHENTICATED" /\ credentials \in {"absent", "invalid"})
       /\ up_log' # up_log =>
              (UploadState \in {"AUTHENTICATED", "UPLOADING"} /\ credentials = "valid")
       /\ UploadState \in {"DONE", "FAILED"} =>
              /\ UploadState' = UploadState
              /\ up_log' = up_log /\ retry' = retry /\ up_outcome' = up_outcome]_vars

\* an upload that went through the authorization flow, a failed attempt and
\* its sleep, and then completed
C15_Witness ==
    /\ UploadState = "DONE"
    /\ flow_ran
    /\ CountOf(up_log, "sleep") >= 1
    /\ main_pc = "done"

StageOrder == <<"fetch", "audio", "save", "video", "upload">>

\* the stages that ran so far all succeeded
AllSucceeded == \A k \in 1..Len(stage_log) : stage_log[k][2] = "ok"

\* C16: the stages that ran are an initial part of fetch, audio, save, video,
\* upload, in that order, and all but the last one of them succeeded; a stage
\* is about to start only when all stages before it ran and succeeded; and
\* the upload is entered only with the upload flag set and after the video
\* stage succeeded.
C16_PipelineOrderAndUploadGating ==
    /\ Len(stage_log) <= Len(StageOrder)
    /\ \A k \in 1..Len(stage_log) :
           /\ stage_log[k][1] = StageOrder[k]
           /\ k < Len(stage_log) => stage_log[k][2] = "ok"
    /\ \A k \in 1..4 :
           main_pc = StageOrder[k] => (Len(stage_log) = k - 1 /\ AllSucceeded)
    /\ (main_pc = "upload" \/ up_pc # "idle" \/ Len(stage_log) = 5) =>
           /\ upload
           /\ Len(stage_log) >= 4
           /\ stage_log[4] = <<"video", "ok">>

\* a run with the upload flag that went through all five stages
C16_Witness ==
    /\ main_pc = "done"
    /\ upload
    /\ Len(stage_log) = 5
    /\ stage_log[5][2] = "done"

\* C18: the message that the video was uploaded successfully is printed only
\* when the upload completed, that is when next_chunk returned a response
\* with a video identifier.
C18_SuccessReportedOnlyWhenDone ==
    "Video uploaded successfully!" \in printed =>
        /\ up_outcome = "done"
        /\ response = "id"

\* the ways the loop of resumable_upload ends: a response (with or without an
\* identifier), the retry cap, or an exception that propagates
LoopEnded ==
    /\ up_pc \in {"returned", "raised"}
    /\ up_outcome \in {"done", "no_id", "gave_up", "raised_http", "raised_other",
                       "interrupted"}

\* C19: within one resumable_upload call the retry counter never decreases,
\* also not in an iteration that advances the cursor; it counts all the
\* retriable failures of the call, which are at most MAX_RETRIES + 1; and a
\* loop whose cursor advances finitely often ends, by a response, by the
\* retry cap or by a propagated error.
C19_TerminationAndCumulativeBudget ==
    /\ [](retry = Failures /\ Failures <= MAX_RETRIES + 1)
    /\ [][retry' >= retry]_vars
    /\ [][(up_log' # up_log /\ Last(up_log') = "progress") => retry' = retry]_vars
    /\ (up_pc = "loop") ~> LoopEnded

\* the cap was reached by failures on both sides of a cursor advance
C19_Witness ==
    /\ up_outcome = "gave_up"
    /\ \E i, j, k \in 1..Len(up_log) :
           /\ i < j /\ j < k
           /\ up_log[i] = "fail"
           /\ up_log[j] = "progress"
           /\ up_log[k] = "fail"

====
